---- MODULE Spec2Model ----
(***************************************************************************)
(* Resumable batch classification task engine of book_arrange:             *)
(* the task ledger (database/database_manager.py, utils/task_manager.py),  *)
(* the controller loop (book_sort.py, _process_classification), the        *)
(* relocator (services/file_manager.py) and the record store.              *)
(***************************************************************************)
EXTENDS Integers, Sequences, FiniteSets, TLC

(***************************************************************************)
(* Bounds of the model.                                                    *)
(***************************************************************************)
MaxFiles == 3        \* files discovered by one scan: 1..MaxFiles
MaxBatch == 2        \* configured batch_max_size: 1..MaxBatch
MaxRuns == 2         \* invocations of the loop on the task (first run + resumes)
MaxCount == 2        \* processed_files a caller passes to update: 0..MaxCount
MaxCalls == 3        \* TaskManager calls on the ledger taken alone
MaxText == 5         \* tokens of a response text given to _parse_response
MaxMoves == 3        \* move_file_to_category calls on the relocator taken alone

(***************************************************************************)
(* Values.                                                                 *)
(***************************************************************************)
AllNames == <<"a", "b", "c", "d", "e", "f">>
Names == {AllNames[i] : i \in 1..MaxFiles}
SrcDir == "src"
\* scan_books lists one directory: every path is SrcDir/name
Paths == {<<SrcDir, n>> : n \in Names}
\* labels the oracle returns; uncat_folder is the configured fallback
OracleCats == {"Fiction"}
NoTask == [exists |-> FALSE]
\* book_info.category_tag of a filename: no row, a row without a label, or a label
NoRecord == "absent"
NullCategory == "null"

Range(s) == {s[i] : i \in 1..Len(s)}
Min(x, y) == IF x < y THEN x ELSE y
CeilDiv(p, b) == (p + b - 1) \div b
Reverse(s) == [i \in 1..Len(s) |-> s[Len(s) + 1 - i]]
\* FileScanner.scan_books: the paths of one directory, each once, in the order
\* os.listdir gives them (here: by name, ascending or descending)
ScanResults ==
  LET listing == [i \in 1..MaxFiles |-> <<SrcDir, AllNames[i]>>]
  IN  UNION {{SubSeq(listing, 1, n), Reverse(SubSeq(listing, 1, n))} : n \in 1..MaxFiles}

VARIABLES
  batch_size,             \* config_manager.get_batch_max_size()
  ledger,                 \* the classification_task row of the task id (committed state)
  task,                   \* the task object of the caller's session (loaded attributes)
  pc,                     \* position of _process_classification
  progress_info,          \* progress_info['processed_files'] of this iteration
  pending_files_list,     \* json.loads(task_obj.pending_files) of this iteration
  batch_files,            \* pending_files_list[:batch_size]
  classification_results, \* what classify_books returned
  completed_files_list,   \* this iteration's completed-outcome list
  idx,                    \* position of the for loop in batch_files
  srcFiles,               \* paths that exist in the source directory
  placed,                 \* files in the target tree: <<category, name, counter>>
  records,                \* book_info rows: filename -> category_tag
  calls,                  \* relocator and record store calls of the latest pass of the for loop
  files,                  \* the list given to create_task
  history,                \* run bookkeeping: runs, oracle calls, commits, pending at start
  api,                    \* the classification_task table and the latest TaskManager call on it
  oracle,                 \* one classify_books call: attempts, delays, what it returned
  parser,                 \* one _parse_response call on a response text
  reloc,                  \* the relocator taken alone: source, target tree, latest call
  race,                   \* two loops on one task id: the row, the source, each loop's locals
  dest                    \* one move_file_to_category call seen as paths: root, label, where the file lands

vars == <<batch_size, ledger, task, pc, progress_info, pending_files_list, batch_files,
          classification_results, completed_files_list, idx, srcFiles, placed, records,
          calls, files, history, api, oracle, parser, reloc, race, dest>>

iterVars == <<progress_info, pending_files_list, batch_files, classification_results,
              completed_files_list, idx, calls>>
fsVars == <<srcFiles, placed, records>>
\* the controller's variables and those of the two components taken alone
ctrlVars == <<batch_size, ledger, task, pc, iterVars, fsVars, files, history>>

uncat_folder == "uncat"

(***************************************************************************)
(* BookSortController._get_filename_from_path: os.path.basename            *)
(***************************************************************************)
get_filename_from_path(file_path) == file_path[Len(file_path)]

(***************************************************************************)
(* Task ledger.                                                            *)
(***************************************************************************)
\* DatabaseManager.create_classification_task: the row after commit; the column
\* defaults give processed_files = 0 and is_completed = FALSE
create_classification_task(fs) ==
  [exists |-> TRUE,
   total_files |-> Len(fs),
   processed_files |-> 0,
   pending_files |-> fs,
   completed_files |-> <<>>,
   is_completed |-> FALSE]

update_classification_task_keepsFlag(row, processed_files, completed_list, pending_list) ==
  [row EXCEPT !.processed_files = processed_files,
              !.completed_files = completed_list,
              !.pending_files = pending_list]

\* DatabaseManager.update_classification_task: the row after a successful commit
update_classification_task(row, processed_files, completed_list, pending_list) ==
  [row EXCEPT !.processed_files = processed_files,
              !.completed_files = completed_list,
              !.pending_files = pending_list,
              !.is_completed = (Len(pending_list) = 0)]

\* DatabaseManager.get_task_by_id through a session: a query returns the object of
\* the session's identity map; attributes already loaded in that session are kept,
\* only a session that holds no loaded object reads the row
get_task_by_id(sessionObject, row) ==
  IF sessionObject # NoTask THEN sessionObject ELSE row

\* DatabaseManager.update_classification_task, lines 198-201: the attribute writes
\* the session holds when the try block raises after `point` of them
SessionWrites(row, attempted, point) ==
  [row EXCEPT !.processed_files = IF point >= 1 THEN attempted.processed_files ELSE @,
              !.completed_files = IF point >= 2 THEN attempted.completed_files ELSE @,
              !.pending_files = IF point >= 3 THEN attempted.pending_files ELSE @,
              !.is_completed = IF point >= 4 THEN attempted.is_completed ELSE @]

RolledBack_flushed(row, attempted) == attempted

RolledBack_partial(row, attempted) ==
  [row EXCEPT !.processed_files = attempted.processed_files]

\* DatabaseManager.update_classification_task, the except branch: session.rollback()
\* discards the attribute writes of the try block, the row is as before
RolledBack(row, attempted) == row

\* TaskManager.is_task_completed
is_task_completed(t) == t.is_completed

\* TaskManager.get_task_progress, the field the loop uses
get_task_progress(sessionObject, row) ==
  LET t == get_task_by_id(sessionObject, row)
  IN  IF t = NoTask THEN [found |-> FALSE, processed_files |-> 0]
      ELSE [found |-> TRUE, processed_files |-> t.processed_files]

(***************************************************************************)
(* Relocator.                                                              *)
(***************************************************************************)
RECURSIVE FreeCounter(_, _, _, _)
FreeCounter(tree, category, name, counter) ==
  IF <<category, name, counter>> \in tree
  THEN FreeCounter(tree, category, name, counter + 1)
  ELSE counter

handle_duplicate_filename_overwrite(tree, category, name) == <<category, name, 0>>

\* FileManager.handle_duplicate_filename: counter 0 is the name itself,
\* counter k >= 1 is name_k.ext
handle_duplicate_filename(tree, category, name) ==
  IF <<category, name, 0>> \notin tree
  THEN <<category, name, 0>>
  ELSE <<category, name, FreeCounter(tree, category, name, 1)>>

(***************************************************************************)
(* Controller loop.                                                        *)
(***************************************************************************)
BatchSlice_one(pending, size) == SubSeq(pending, 1, Min(1, Len(pending)))

BatchSlice_fromScan(pending, size) == SubSeq(files, 1, Min(size, Len(files)))

BatchSlice_tail(pending, size) ==
  SubSeq(pending, Len(pending) - Min(size, Len(pending)) + 1, Len(pending))

\* book_sort.py line 166
BatchSlice(pending, size) == SubSeq(pending, 1, Min(size, Len(pending)))

CategoryFor_alwaysFallback(results, filename) == uncat_folder

\* book_sort.py line 187: classification_results.get(filename, uncat_folder)
CategoryFor(results, filename) ==
  IF filename \in DOMAIN results THEN results[filename] ELSE uncat_folder

RemainingPending_keep(pending, completed) == pending

\* book_sort.py line 216
RemainingPending(pending, completed) ==
  SelectSeq(pending, LAMBDA f : f \notin Range(completed))

\* book_sort.py line 209
CompletedCount(previous, completed) == previous + Len(completed)

AllCompleted_onlyNew(existing, completed) == completed

\* book_sort.py line 213
AllCompleted(existing, completed) == existing \o completed

\* what classify_books can return for a batch: a mapping of some of the names
\* to labels (the empty mapping included), or a decoded JSON value that is no
\* mapping (json.loads of the content gave a list, a number, ...)
EmptyMapping == [n \in {} |-> uncat_folder]
OracleResults(filenames) ==
  {[is_mapping |-> TRUE, map |-> m] :
     m \in UNION {[S -> OracleCats] : S \in SUBSET Range(filenames)}}
  \cup {[is_mapping |-> FALSE, map |-> EmptyMapping]}

(***************************************************************************)
(* The ledger taken alone: TaskManager calls with any arguments.           *)
(***************************************************************************)
TaskIds == {"t1", "t2"}
\* lists a caller can pass: over two paths, in both orders, the empty list included
ApiLists ==
  LET p1 == <<SrcDir, AllNames[1]>>
      p2 == <<SrcDir, AllNames[2]>>
  IN  {<<>>, <<p1>>, <<p2>>, <<p1, p2>>, <<p2, p1>>}
\* lists passed to update: they can share a path and can hold a path the task
\* was not created with
UpdateLists ==
  LET p1 == <<SrcDir, AllNames[1]>>
      p2 == <<SrcDir, AllNames[2]>>
  IN  {<<>>, <<p1>>, <<p1, p2>>}
\* outcomes of a call: the value it returned or the exception it raised
ApiErrors == {"ValueError", "IntegrityError", "StorageError"}
NoCall == [op |-> "none", task_id |-> "", files |-> <<>>, existed |-> FALSE]
ApiIdle == [table |-> {}, call |-> NoCall, outcome |-> "none", n |-> 0]

\* session.query(ClassificationTask).filter_by(task_id=...).first()
TableRow(table, task_id) ==
  IF \E r \in table : r[1] = task_id
  THEN (CHOOSE r \in table : r[1] = task_id)[2]
  ELSE NoTask

InsertTask_second(table, task_id, row) ==
  [ok |-> TRUE, table |-> table \cup {<<task_id, row>>}]

InsertTask_replace(table, task_id, row) ==
  [ok |-> TRUE, table |-> {r \in table : r[1] # task_id} \cup {<<task_id, row>>}]

\* session.add(task); session.commit() of create_classification_task: task_id is
\* a unique column (models.py line 81), the INSERT of a second row with the id
\* raises, the except branch rolls back
InsertTask(table, task_id, row) ==
  IF \E r \in table : r[1] = task_id
  THEN [ok |-> FALSE, table |-> table]
  ELSE [ok |-> TRUE, table |-> table \cup {<<task_id, row>>}]

create_task_check_idOnly(task_id, fs) ==
  IF task_id = "" THEN "ValueError" ELSE "ok"

\* TaskManager.create_task lines 38-42: the argument checks
create_task_check(task_id, fs) ==
  IF task_id = "" THEN "ValueError"
  ELSE IF fs = <<>> THEN "ValueError"
  ELSE "ok"

create_task_processedAll(table, task_id, fs, storeOk) ==
  LET ins == InsertTask(table, task_id,
                        [create_classification_task(fs) EXCEPT !.processed_files = Len(fs)])
  IN  IF create_task_check(task_id, fs) # "ok"
      THEN [outcome |-> create_task_check(task_id, fs), table |-> table]
      ELSE IF ~storeOk THEN [outcome |-> "StorageError", table |-> table]
      ELSE [outcome |-> IF ins.ok THEN "ok" ELSE "IntegrityError", table |-> ins.table]

\* TaskManager.create_task: the checks, then create_classification_task; a
\* failure of the store (storeOk false) or of the INSERT is re-raised
create_task(table, task_id, fs, storeOk) ==
  LET ins == InsertTask(table, task_id, create_classification_task(fs))
  IN  IF create_task_check(task_id, fs) # "ok"
      THEN [outcome |-> create_task_check(task_id, fs), table |-> table]
      ELSE IF ~storeOk THEN [outcome |-> "StorageError", table |-> table]
      ELSE [outcome |-> IF ins.ok THEN "ok" ELSE "IntegrityError", table |-> ins.table]

update_task_progress_upsert(table, task_id, processed, completed, pending, storeOk) ==
  LET row == TableRow(table, task_id)
      base == IF row = NoTask THEN create_classification_task(pending) ELSE row
      new == update_classification_task(base, processed, completed, pending)
  IN  IF ~storeOk THEN [outcome |-> "StorageError", table |-> table]
      ELSE [outcome |-> "ok",
            table |-> {r \in table : r[1] # task_id} \cup {<<task_id, new>>}]

\* TaskManager.update_task_progress: None when get_task finds no row, else
\* update_classification_task, whose failure is re-raised after the rollback
update_task_progress(table, task_id, processed, completed, pending, storeOk) ==
  LET row == TableRow(table, task_id)
      new == update_classification_task(row, processed, completed, pending)
  IN  IF row = NoTask THEN [outcome |-> "None", table |-> table]
      ELSE IF ~storeOk
      THEN [outcome |-> "StorageError",
            table |-> {r \in table : r[1] # task_id} \cup {<<task_id, RolledBack(row, new)>>}]
      ELSE [outcome |-> "ok",
            table |-> {r \in table : r[1] # task_id} \cup {<<task_id, new>>}]

\* ---- the oracle client taken alone: AICategorizationService ----

max_retries == 3
retry_delay == 2
rate_limit_delay == 5

\* the titles of one batch and the mappings a response can carry for them
Titles == {AllNames[1]}
OracleMaps == {[n \in Titles |-> c] : c \in {"Fiction", "History"}}

\* what classify_books hands to its caller: a dict, or a JSON value that is none
Mapping(m) == [is_mapping |-> TRUE, map |-> m]
NotAMapping == [is_mapping |-> FALSE, map |-> EmptyMapping]

\* the text of a 200 response, by what _parse_response reads of it: text is how
\* json.loads(response_text) ends, choices and content what the lookups find,
\* salvage what re.search(r'\{[^{}]*\}') followed by json.loads yields
Body(text, choices, content, salvage, map) ==
  [text |-> text, choices |-> choices, content |-> content, salvage |-> salvage, map |-> map]
NoBody == Body("empty", "none", "none", "none", EmptyMapping)
Bodies ==
  {NoBody}
  \cup {Body("bad_json", "none", "none", sv, EmptyMapping) : sv \in {"none", "invalid"}}
  \cup {Body("bad_json", "none", "none", "object", m) : m \in OracleMaps}
  \cup {Body(t, "none", "none", "none", EmptyMapping) : t \in {"number", "list"}}
  \cup {Body("object", c, "none", "none", EmptyMapping) :
          c \in {"missing", "empty", "no_message", "bad_type"}}
  \cup {Body("object", "ok", c, "none", EmptyMapping) : c \in {"null", "blank", "non_mapping"}}
  \cup {Body("object", "ok", "bad_json", "invalid", EmptyMapping)}
  \cup {Body("object", "ok", "bad_json", "object", m) : m \in OracleMaps}
  \cup {Body("object", "ok", "mapping", "none", m) : m \in OracleMaps}

\* how one pass of the for loop can end: an exception of session.post, or a
\* response with its status
Outcome(kind, status, body) == [kind |-> kind, status |-> status, body |-> body]
Outcomes ==
  {Outcome(k, 0, NoBody) : k \in {"timeout", "payload_error", "exception"}}
  \cup {Outcome("response", st, NoBody) : st \in {429, 500}}
  \cup {Outcome("response", 200, b) : b \in Bodies}

\* the except json.JSONDecodeError branch of _parse_response (lines 178-191)
Salvage(body) ==
  IF body.salvage = "object" THEN Mapping(body.map) ELSE Mapping(EmptyMapping)

ParseResponse_raisesOnBadJson(body) ==
  IF body.text = "bad_json" \/ (body.text = "object" /\ body.choices = "ok" /\ body.content = "bad_json")
  THEN [raised |-> TRUE, value |-> Mapping(EmptyMapping)]
  ELSE IF body.text = "number" \/ body.choices = "bad_type" \/ body.content = "null"
  THEN [raised |-> TRUE, value |-> Mapping(EmptyMapping)]
  ELSE IF body.content = "mapping" THEN [raised |-> FALSE, value |-> Mapping(body.map)]
  ELSE IF body.content = "non_mapping" THEN [raised |-> FALSE, value |-> NotAMapping]
  ELSE [raised |-> FALSE, value |-> Mapping(EmptyMapping)]

\* AICategorizationService._parse_response: the value returned, or raised when an
\* exception other than JSONDecodeError, KeyError and IndexError leaves it
ParseResponse(body) ==
  IF body.text = "bad_json" THEN [raised |-> FALSE, value |-> Salvage(body)]
  ELSE IF body.text = "number" THEN [raised |-> TRUE, value |-> Mapping(EmptyMapping)]
  ELSE IF body.text = "list" THEN [raised |-> FALSE, value |-> Mapping(EmptyMapping)]
  ELSE IF body.choices \in {"missing", "empty", "no_message"}
  THEN [raised |-> FALSE, value |-> Mapping(EmptyMapping)]
  ELSE IF body.choices = "bad_type" THEN [raised |-> TRUE, value |-> Mapping(EmptyMapping)]
  ELSE IF body.content = "null" THEN [raised |-> TRUE, value |-> Mapping(EmptyMapping)]
  ELSE IF body.content = "blank" THEN [raised |-> FALSE, value |-> Mapping(EmptyMapping)]
  ELSE IF body.content = "bad_json" THEN [raised |-> FALSE, value |-> Salvage(body)]
  ELSE IF body.content = "mapping" THEN [raised |-> FALSE, value |-> Mapping(body.map)]
  ELSE [raised |-> FALSE, value |-> NotAMapping]

\* line 114 is reached and returns: a 200 with a text that _parse_response turns
\* into a value
Parsed(outcome) ==
  /\ outcome.kind = "response"
  /\ outcome.status = 200
  /\ outcome.body.text # "empty"
  /\ ~ParseResponse(outcome.body).raised

RateLimited(outcome) == outcome.kind = "response" /\ outcome.status = 429

SleepAfter_standardToo(attempt, outcome) ==
  IF Parsed(outcome) THEN <<>>
  ELSE IF RateLimited(outcome) THEN <<rate_limit_delay, retry_delay>>
  ELSE IF attempt >= max_retries - 1 THEN <<>>
  ELSE IF outcome.kind = "payload_error" THEN <<retry_delay * (attempt + 1)>>
  ELSE <<retry_delay>>

SleepAfter_lastToo(attempt, outcome) ==
  IF Parsed(outcome) THEN <<>>
  ELSE IF RateLimited(outcome) THEN <<rate_limit_delay>>
  ELSE IF outcome.kind = "payload_error" /\ attempt < max_retries - 1
  THEN <<retry_delay * (attempt + 1)>>
  ELSE IF outcome.kind = "payload_error" THEN <<>>
  ELSE <<retry_delay>>

\* the asyncio.sleep calls of one pass, in order (lines 109, 122, 126, 133, 140, 147)
SleepAfter(attempt, outcome) ==
  IF Parsed(outcome) THEN <<>>
  ELSE IF RateLimited(outcome) THEN <<rate_limit_delay>>
  ELSE IF attempt >= max_retries - 1 THEN <<>>
  ELSE IF outcome.kind = "payload_error" THEN <<retry_delay * (attempt + 1)>>
  ELSE <<retry_delay>>

\* the pass ends in continue: always after a 429, never after line 114 returned,
\* otherwise unless it was the last pass
Continues(attempt, outcome) ==
  IF Parsed(outcome) THEN FALSE
  ELSE IF RateLimited(outcome) THEN TRUE
  ELSE attempt < max_retries - 1

NextAttempt_freeOn429(attempt, outcome) ==
  IF RateLimited(outcome) THEN attempt ELSE attempt + 1

\* for attempt in range(max_retries): the index of the pass after a continue
NextAttempt(attempt, outcome) == attempt + 1

\* the value of the return statement that ends the pass
ReturnValue(outcome) ==
  IF Parsed(outcome) THEN ParseResponse(outcome.body).value ELSE Mapping(EmptyMapping)

\* classify_books before it is called
OracleIdle ==
  [pc |-> "idle", titles |-> {}, attempt |-> 0, requests |-> 0, log |-> <<>>,
   result |-> Mapping(EmptyMapping)]

\* ---- _parse_response on the text itself ----

\* a response text as a sequence of tokens: the two braces, a complete
\* "name": "label" pair, and any text that is neither
Tokens == {"{", "}", "kv", "x"}
Texts == UNION {[1..n -> Tokens] : n \in 1..MaxText}
EmptyObject == <<"{", "}">>

\* json.loads of a token sequence: it decodes when the sequence is one flat
\* object, and the decoded value is written as that sequence
json_loads(text) ==
  [ok |-> text \in {EmptyObject, <<"{", "kv", "}">>}, value |-> text]

RECURSIVE BalancedEnd(_, _, _)
BalancedEnd(text, j, depth) ==
  IF j > Len(text) THEN 0
  ELSE IF text[j] = "{" THEN BalancedEnd(text, j + 1, depth + 1)
  ELSE IF text[j] = "}" THEN (IF depth = 1 THEN j ELSE BalancedEnd(text, j + 1, depth - 1))
  ELSE BalancedEnd(text, j + 1, depth)

RECURSIVE SearchBalancedFrom(_, _)
SearchBalancedFrom(text, i) ==
  IF i > Len(text) THEN <<>>
  ELSE IF text[i] = "{" /\ BalancedEnd(text, i + 1, 1) # 0
  THEN SubSeq(text, i, BalancedEnd(text, i + 1, 1))
  ELSE SearchBalancedFrom(text, i + 1)

re_search_balanced(text) == SearchBalancedFrom(text, 1)

\* [^{}]*\} tried from position j: the position of the closing brace, 0 when
\* another opening brace or the end of the text comes first
RECURSIVE MatchEnd(_, _)
MatchEnd(text, j) ==
  IF j > Len(text) THEN 0
  ELSE IF text[j] = "}" THEN j
  ELSE IF text[j] = "{" THEN 0
  ELSE MatchEnd(text, j + 1)

\* re.search tries the pattern at each position from the left
RECURSIVE SearchFrom(_, _)
SearchFrom(text, i) ==
  IF i > Len(text) THEN <<>>
  ELSE IF text[i] = "{" /\ MatchEnd(text, i + 1) # 0
  THEN SubSeq(text, i, MatchEnd(text, i + 1))
  ELSE SearchFrom(text, i + 1)

\* re.search(r'\{[^{}]*\}', response_text) (line 184): the match, <<>> for None
re_search(text) == SearchFrom(text, 1)

\* _parse_response on a text without a choices key: a text that decodes gives {}
\* (lines 165-167), one that does not goes through the except branch (178-191)
parse_response_text(text) ==
  IF json_loads(text).ok THEN EmptyObject
  ELSE IF re_search(text) # <<>> /\ json_loads(re_search(text)).ok
  THEN json_loads(re_search(text)).value
  ELSE EmptyObject

\* ---- the relocator taken alone: FileManager.move_file_to_category ----

\* files that can appear in the source directory, and the directories of the
\* target tree a caller can name
\* a path as os.path sees it: whether it starts with the separator, and its
\* components in order
NoPath == [abs |-> FALSE, parts |-> <<>>]
DestIdle ==
  [pc |-> "idle", target_dir |-> NoPath, file_path |-> <<>>, category |-> NoPath,
   category_dir |-> NoPath, target_path |-> NoPath, counter |-> 0]

RelocPaths == {<<SrcDir, AllNames[1]>>, <<SrcDir, AllNames[2]>>}
RelocCategories == {"Fiction", uncat_folder}
\* how shutil.move ends when the source exists: done; failed with nothing
\* changed; or, across devices, copied to the target but the source not removed
MoveEnds == {"ok", "fails", "copied_not_removed"}
NoTarget == <<>>
NoMove == [file |-> <<>>, category |-> "", how |-> "ok"]
RelocIdle ==
  [src |-> {}, tree |-> {}, call |-> NoMove, outcome |-> "none", target |-> NoTarget, n |-> 0]

move_file_to_category_swallow(src, tree, file_path, category, how) ==
  LET target_path == handle_duplicate_filename(tree, category, get_filename_from_path(file_path))
  IN  IF file_path \notin src \/ how # "ok"
      THEN [outcome |-> "returned", target |-> target_path, src |-> src, tree |-> tree]
      ELSE [outcome |-> "returned", target |-> target_path,
            src |-> src \ {file_path}, tree |-> tree \cup {target_path}]

\* FileManager.move_file_to_category: the target path is resolved, shutil.move
\* runs, its exception is re-raised (lines 38-57)
move_file_to_category(src, tree, file_path, category, how) ==
  LET target_path == handle_duplicate_filename(tree, category, get_filename_from_path(file_path))
  IN  IF file_path \notin src \/ how = "fails"
      THEN [outcome |-> "raised", target |-> NoTarget, src |-> src, tree |-> tree]
      ELSE IF how = "copied_not_removed"
      THEN [outcome |-> "raised", target |-> NoTarget,
            src |-> src, tree |-> tree \cup {target_path}]
      ELSE [outcome |-> "returned", target |-> target_path,
            src |-> src \ {file_path}, tree |-> tree \cup {target_path}]

\* ---- two loops on one task id ----

Loops == {1, 2}
RaceFiles == <<<<SrcDir, AllNames[1]>>, <<SrcDir, AllNames[2]>>>>
\* the locals of one _process_classification call: task is the object of the
\* caller's session, obj the task_obj of current_session with expired telling
\* whether a commit or rollback of that session has expired it since it was read
IdleLoop ==
  [pc |-> "idle", task |-> NoTask, obj |-> NoTask, expired |-> FALSE,
   pending |-> <<>>, batch |-> <<>>, idx |-> 0, outcome |-> <<>>]
\* the two loops before the task exists
RaceIdle ==
  [pc |-> "idle", size |-> 1, row |-> NoTask, src |-> {}, ever |-> {}, overlap |-> FALSE,
   loops |-> [r \in Loops |-> IdleLoop]]

Flush_merge(row, loaded, new) ==
  [row EXCEPT
     !.processed_files = IF new.processed_files = loaded.processed_files THEN @
                         ELSE new.processed_files,
     !.completed_files = IF new.completed_files = loaded.completed_files THEN @
                         ELSE new.completed_files,
     !.pending_files = SelectSeq(@, LAMBDA f : f \in Range(new.pending_files)),
     !.is_completed = IF new.is_completed = loaded.is_completed THEN @
                      ELSE new.is_completed]

\* session.commit() of update_classification_task (line 203): the UPDATE carries
\* the attributes whose value differs from the one the session had loaded, and
\* it is applied to the row as it is now; no version of the row is compared
Flush(row, loaded, new) ==
  [row EXCEPT
     !.processed_files = IF new.processed_files = loaded.processed_files THEN @
                         ELSE new.processed_files,
     !.completed_files = IF new.completed_files = loaded.completed_files THEN @
                         ELSE new.completed_files,
     !.pending_files = IF new.pending_files = loaded.pending_files THEN @
                       ELSE new.pending_files,
     !.is_completed = IF new.is_completed = loaded.is_completed THEN @
                      ELSE new.is_completed]

\* what the attributes of task_obj are when lines 212-224 read and write them
Loaded(l, row) == IF l.expired THEN row ELSE l.obj

\* _parse_response before it is called
ParserIdle == [pc |-> "idle", text |-> <<>>, result |-> EmptyObject]

\* the locals of an iteration hold nothing between two iterations: each is
\* assigned again (lines 149-183) before it is read
NoIteration ==
  /\ progress_info' = [found |-> FALSE, processed_files |-> 0]
  /\ pending_files_list' = <<>>
  /\ batch_files' = <<>>
  /\ classification_results' = [is_mapping |-> TRUE, map |-> EmptyMapping]
  /\ completed_files_list' = <<>>
  /\ idx' = 0
  /\ calls' = <<>>

Init ==
  /\ batch_size \in 1..MaxBatch
  /\ ledger = NoTask
  /\ task = NoTask
  /\ pc = "init"
  /\ progress_info = [found |-> FALSE, processed_files |-> 0]
  /\ pending_files_list = <<>>
  /\ batch_files = <<>>
  /\ classification_results = [is_mapping |-> TRUE, map |-> EmptyMapping]
  /\ completed_files_list = <<>>
  /\ idx = 0
  /\ srcFiles = {}
  /\ placed \in {{}, {<<"Fiction", "a", 0>>}}
  /\ records = [n \in Names |-> NoRecord]
  /\ calls = <<>>
  /\ files = <<>>
  /\ history = [runs |-> 0, oracle |-> 0, commits |-> 0, start |-> 0]
  /\ api = ApiIdle
  /\ oracle = OracleIdle
  /\ parser = ParserIdle
  /\ reloc = RelocIdle
  /\ race = RaceIdle
  /\ dest = DestIdle

\* BookSortController.run lines 83-110: scan, create_task, enter the loop
CreateTask ==
  /\ pc = "init"
  /\ \E fs \in ScanResults :
       /\ files' = fs
       /\ srcFiles' = Range(fs)
       /\ ledger' = create_classification_task(fs)
       \* line 105 reads task.total_files: the expired object is loaded once
       /\ task' = create_classification_task(fs)
       /\ history' = [runs |-> 1, oracle |-> 0, commits |-> 0, start |-> Len(fs)]
  /\ pc' = "loop"
  /\ UNCHANGED <<batch_size, api, oracle, parser, reloc, race, dest, iterVars, placed, records>>

\* TaskManager.resume_task: the task when it can be resumed, NoTask otherwise
resume_task(row) ==
  IF row = NoTask THEN NoTask
  ELSE IF row.is_completed THEN NoTask
  ELSE IF row.pending_files = <<>> THEN NoTask
  ELSE row

\* The loop is invoked again on the task id after a run that aborted: a new
\* session loads the task (resume_task), then _process_classification runs on it
Resume ==
  /\ pc = "aborted"
  /\ history.runs < MaxRuns
  /\ resume_task(ledger) # NoTask
  /\ task' = resume_task(ledger)
  /\ history' = [runs |-> history.runs + 1, oracle |-> 0, commits |-> 0,
                 start |-> Len(ledger.pending_files)]
  /\ pc' = "loop"
  /\ UNCHANGED <<batch_size, api, oracle, parser, reloc, race, dest, ledger, iterVars, fsVars, files>>

LoopEnds_flagOnly(t, info, task_obj) == is_task_completed(t)

\* book_sort.py lines 147-164: the while test and the three breaks
LoopEnds(t, info, task_obj) ==
  \/ is_task_completed(t)
  \/ ~info.found
  \/ task_obj = NoTask
  \/ task_obj.pending_files = <<>>

\* book_sort.py lines 147-166: the while test, the reads and the slice
LoopHead ==
  /\ pc = "loop"
  /\ LET info == get_task_progress(task, ledger)
         \* current_session is new: it reads the row
         task_obj == get_task_by_id(NoTask, ledger)
     IN  IF LoopEnds(task, info, task_obj)
         THEN /\ pc' = "done"
              /\ UNCHANGED iterVars
         ELSE /\ progress_info' = info
              /\ pending_files_list' = task_obj.pending_files
              /\ batch_files' = BatchSlice(task_obj.pending_files, batch_size)
              /\ completed_files_list' = <<>>
              /\ calls' = <<>>
              /\ idx' = 0
              /\ pc' = "classify"
              /\ UNCHANGED classification_results
  /\ UNCHANGED <<batch_size, api, oracle, parser, reloc, race, dest, ledger, task, fsVars, files, history>>

\* book_sort.py lines 167-183: the oracle is called with the basenames of the batch
Classify ==
  /\ pc = "classify"
  /\ LET batch_filenames == [i \in 1..Len(batch_files) |-> get_filename_from_path(batch_files[i])]
     IN  \E r \in OracleResults(batch_filenames) : classification_results' = r
  /\ history' = [history EXCEPT !.oracle = @ + 1]
  /\ idx' = 1
  /\ pc' = "items"
  /\ UNCHANGED <<batch_size, api, oracle, parser, reloc, race, dest, ledger, task, progress_info, pending_files_list, batch_files,
                 completed_files_list, calls, fsVars, files>>

Call(op, file_path, category, ok) ==
  [op |-> op, file |-> file_path, category |-> category, ok |-> ok]

AppendOutcome_skipFailed(list, file_path, raised) ==
  IF raised THEN list ELSE Append(list, file_path)

AppendOutcome_skipMissing(list, file_path, raised) ==
  IF raised /\ file_path \notin srcFiles THEN list ELSE Append(list, file_path)

\* book_sort.py line 201 and line 206: the file joins the completed-outcome list
\* at the end of the try block and in the except block
AppendOutcome(list, file_path, raised) == Append(list, file_path)

RecordsAfter_evenIfMoveFailed(recs, filename, category, raisedAt) ==
  IF raisedAt \in {"category", "get_or_create"} THEN recs
  ELSE IF raisedAt = "update_category"
  THEN [recs EXCEPT ![filename] = IF @ = NoRecord THEN NullCategory ELSE @]
  ELSE [recs EXCEPT ![filename] = category]

\* book_sort.py lines 186-198: the statements of the try block run in order and
\* the first that raises ends the pass, so the book_info rows after the pass
\* depend on where it raised: nothing is written when the lookup of the
\* category, the move or get_or_create_book_info raised; the row exists without
\* a new label when update_book_category raised; it carries the label otherwise
RecordsAfter(recs, filename, category, raisedAt) ==
  IF raisedAt \in {"category", "move", "get_or_create"} THEN recs
  ELSE IF raisedAt = "update_category"
  THEN [recs EXCEPT ![filename] = IF @ = NoRecord THEN NullCategory ELSE @]
  ELSE [recs EXCEPT ![filename] = category]

AfterFile_propagate(position, size, raised) ==
  IF raised THEN "aborted" ELSE IF position = size THEN "commit" ELSE "items"

\* book_sort.py lines 184 and 203-206: the except block of the for loop ends the
\* pass without raising, so the loop goes to the next file, or to the update
\* after the last one, whether or not the pass raised
AfterFile(position, size, raised) ==
  IF position = size THEN "commit" ELSE "items"

\* book_sort.py lines 184-206: one pass of the for loop
ProcessFile ==
  /\ pc = "items"
  /\ LET file_path == batch_files[idx]
         filename == get_filename_from_path(file_path)
         category == CategoryFor(classification_results.map, filename)
         target_path == handle_duplicate_filename(placed, category, filename)
         move == Call("move", file_path, category, TRUE)
         getc == Call("get_or_create", file_path, category, TRUE)
         updc == Call("update_category", file_path, category, TRUE)
     IN  \/ \* classification_results.get raises: the value is no mapping
            /\ ~classification_results.is_mapping
            /\ completed_files_list' = AppendOutcome(completed_files_list, file_path, TRUE)
            /\ pc' = AfterFile(idx, Len(batch_files), TRUE)
            /\ calls' = <<>>
            /\ records' = RecordsAfter(records, filename, category, "category")
            /\ UNCHANGED <<srcFiles, placed>>
         \/ \* shutil.move raises (the source is gone, permissions, ...)
            /\ classification_results.is_mapping
            /\ calls' = <<[move EXCEPT !.ok = FALSE]>>
            /\ completed_files_list' = AppendOutcome(completed_files_list, file_path, TRUE)
            /\ pc' = AfterFile(idx, Len(batch_files), TRUE)
            /\ records' = RecordsAfter(records, filename, category, "move")
            /\ UNCHANGED <<srcFiles, placed>>
         \/ \* the file is moved; get_or_create_book_info raises
            /\ classification_results.is_mapping
            /\ file_path \in srcFiles
            /\ records[filename] = NoRecord
            /\ srcFiles' = srcFiles \ {file_path}
            /\ placed' = placed \cup {target_path}
            /\ calls' = <<move, [getc EXCEPT !.ok = FALSE]>>
            /\ completed_files_list' = AppendOutcome(completed_files_list, file_path, TRUE)
            /\ pc' = AfterFile(idx, Len(batch_files), TRUE)
            /\ records' = RecordsAfter(records, filename, category, "get_or_create")
         \/ \* the file is moved, the row exists; update_book_category raises
            /\ classification_results.is_mapping
            /\ file_path \in srcFiles
            /\ srcFiles' = srcFiles \ {file_path}
            /\ placed' = placed \cup {target_path}
            /\ records' = RecordsAfter(records, filename, category, "update_category")
            /\ calls' = <<move, getc, [updc EXCEPT !.ok = FALSE]>>
            /\ completed_files_list' = AppendOutcome(completed_files_list, file_path, TRUE)
            /\ pc' = AfterFile(idx, Len(batch_files), TRUE)
         \/ \* nothing raises
            /\ classification_results.is_mapping
            /\ file_path \in srcFiles
            /\ srcFiles' = srcFiles \ {file_path}
            /\ placed' = placed \cup {target_path}
            /\ records' = RecordsAfter(records, filename, category, "none")
            /\ calls' = <<move, getc, updc>>
            /\ completed_files_list' = AppendOutcome(completed_files_list, file_path, FALSE)
            /\ pc' = AfterFile(idx, Len(batch_files), FALSE)
  /\ idx' = idx + 1
  /\ UNCHANGED <<batch_size, api, oracle, parser, reloc, race, dest, ledger, task, progress_info, pending_files_list, batch_files,
                 classification_results, files, history>>

\* book_sort.py lines 208-224 with TaskManager.update_task_progress: the values
\* the iteration commits
CommittedRow ==
  LET completed_count == CompletedCount(progress_info.processed_files, completed_files_list)
      \* task_obj of current_session: its attributes are those of the row
      existing_completed == ledger.completed_files
      all_completed == AllCompleted(existing_completed, completed_files_list)
      remaining_pending == RemainingPending(pending_files_list, completed_files_list)
  IN  update_classification_task(ledger, completed_count, all_completed, remaining_pending)

\* the commit of update_classification_task succeeds
CommitOk ==
  /\ pc = "commit"
  /\ ledger' = CommittedRow
  /\ history' = [history EXCEPT !.commits = @ + 1]
  /\ pc' = "loop"
  /\ NoIteration
  /\ UNCHANGED <<batch_size, api, oracle, parser, reloc, race, dest, task, fsVars, files>>

\* the commit raises: rollback, the exception leaves the loop (lines 204-207 of
\* database_manager.py, lines 228-232 of book_sort.py)
CommitFails ==
  /\ pc = "commit"
  \* the failure is in one of the statements of the try block, the commit included
  /\ \E point \in 0..4 :
       ledger' = RolledBack(ledger, SessionWrites(ledger, CommittedRow, point))
  /\ pc' = "aborted"
  /\ NoIteration
  /\ UNCHANGED <<batch_size, api, oracle, parser, reloc, race, dest, task, fsVars, files, history>>

\* _process_classification is called again on the task after a run that ended:
\* the caller loads the task in a new session (get_task) and passes it
Reenter ==
  /\ pc = "done"
  /\ history.runs < MaxRuns
  /\ task' = get_task_by_id(NoTask, ledger)
  /\ history' = [history EXCEPT !.runs = @ + 1]
  /\ pc' = "loop"
  /\ UNCHANGED <<batch_size, api, oracle, parser, reloc, race, dest, ledger, iterVars, fsVars, files>>

LoopStep == LoopHead \/ Classify \/ ProcessFile \/ CommitOk \/ CommitFails

Next == CreateTask \/ Resume \/ Reenter \/ LoopHead \/ Classify \/ ProcessFile \/ CommitOk \/ CommitFails

Spec == Init /\ [][Next]_vars

(***************************************************************************)
(* The ledger taken alone.                                                 *)
(***************************************************************************)
\* TaskManager.create_task called with any task id and any list
ApiCreate ==
  /\ api.n < MaxCalls
  /\ \E task_id \in TaskIds \cup {""}, fs \in ApiLists, storeOk \in BOOLEAN :
    LET r == create_task(api.table, task_id, fs, storeOk)
    IN  api' = [table |-> r.table,
                call |-> [op |-> "create", task_id |-> task_id, files |-> fs,
                          existed |-> TableRow(api.table, task_id) # NoTask],
                outcome |-> r.outcome,
                n |-> api.n + 1]

\* TaskManager.update_task_progress called with any task id, count and lists
ApiUpdate ==
  /\ api.n < MaxCalls
  /\ \E task_id \in TaskIds, processed \in 0..MaxCount, completed \in UpdateLists,
     pending \in UpdateLists, storeOk \in BOOLEAN :
    LET r == update_task_progress(api.table, task_id, processed, completed, pending, storeOk)
    IN  api' = [table |-> r.table,
                call |-> [op |-> "update", task_id |-> task_id, files |-> <<>>,
                          existed |-> TableRow(api.table, task_id) # NoTask],
                outcome |-> r.outcome,
                n |-> api.n + 1]

LedgerInit == Init /\ batch_size = 1 /\ placed = {}

LedgerNext ==
  \/ ApiCreate /\ UNCHANGED <<dest, ctrlVars, oracle, parser, reloc, race>>
  \/ ApiUpdate /\ UNCHANGED <<dest, ctrlVars, oracle, parser, reloc, race>>

LedgerSpec == LedgerInit /\ [][LedgerNext]_vars

\* classify_books (lines 39-43): no title, no request
OracleCall ==
  /\ oracle.pc = "idle"
  /\ \E titles \in SUBSET Titles :
       oracle' = [OracleIdle EXCEPT !.titles = titles,
                                    !.pc = IF titles = {} THEN "done" ELSE "attempt"]

\* one pass of the for loop of _classify_with_deepseek: the request, the branch
\* its outcome selects, the sleeps of that branch, then continue or return; the
\* continue of the last pass falls to the return {} of line 151
OracleAttempt ==
  /\ oracle.pc = "attempt"
  /\ \E outcome \in Outcomes :
       LET again == Continues(oracle.attempt, outcome)
           next == NextAttempt(oracle.attempt, outcome)
       IN  oracle' = [oracle EXCEPT
                        !.requests = @ + 1,
                        !.log = Append(@, [outcome |-> outcome,
                                           attempt |-> oracle.attempt,
                                           sleeps |-> SleepAfter(oracle.attempt, outcome)]),
                        !.attempt = IF again THEN next ELSE @,
                        !.pc = IF again /\ next < max_retries THEN "attempt" ELSE "done",
                        !.result = IF again THEN Mapping(EmptyMapping)
                                   ELSE ReturnValue(outcome)]

OracleInit == Init /\ batch_size = 1 /\ placed = {}

OracleNext ==
  \/ OracleCall /\ UNCHANGED <<dest, ctrlVars, api, parser, reloc, race>>
  \/ OracleAttempt /\ UNCHANGED <<dest, ctrlVars, api, parser, reloc, race>>

OracleSpec == OracleInit /\ [][OracleNext]_vars

\* a file appears in the source directory (again, after one of its name was moved)
RelocArrive ==
  /\ \E file_path \in RelocPaths \ reloc.src :
       reloc' = [reloc EXCEPT !.src = @ \cup {file_path}]

\* move_file_to_category called with any path and category
RelocMove ==
  /\ reloc.n < MaxMoves
  /\ \E file_path \in RelocPaths, category \in RelocCategories, how \in MoveEnds :
       LET r == move_file_to_category(reloc.src, reloc.tree, file_path, category, how)
       IN  reloc' = [src |-> r.src, tree |-> r.tree,
                     call |-> [file |-> file_path, category |-> category, how |-> how],
                     outcome |-> r.outcome, target |-> r.target, n |-> reloc.n + 1]

RelocInit == Init /\ batch_size = 1 /\ placed = {}

RelocNext ==
  \/ RelocArrive /\ UNCHANGED <<dest, ctrlVars, api, oracle, parser, race>>
  \/ RelocMove /\ UNCHANGED <<dest, ctrlVars, api, oracle, parser, race>>

RelocSpec == RelocInit /\ [][RelocNext]_vars

\* run(): the task is created from the scanned files
RaceStart ==
  /\ race.pc = "idle"
  /\ \E size \in 1..MaxBatch :
       race' = [RaceIdle EXCEPT !.pc = "run", !.size = size,
                                !.row = create_classification_task(RaceFiles),
                                !.src = Range(RaceFiles)]

\* _process_classification is called for the task id: the caller's session loads
\* the task object
RaceEnter(r) ==
  /\ race.pc = "run"
  /\ race.loops[r].pc = "idle"
  /\ race' = [race EXCEPT !.loops[r].pc = "loop", !.loops[r].task = race.row]

\* lines 147-183 of one loop: the reads, the slice, the oracle call
RaceHead(r) ==
  LET l == race.loops[r]
      info == get_task_progress(l.task, race.row)
      task_obj == get_task_by_id(NoTask, race.row)
      batch == BatchSlice(task_obj.pending_files, race.size)
  IN  /\ race.pc = "run"
      /\ l.pc = "loop"
      /\ IF LoopEnds(l.task, info, task_obj)
         THEN race' = [race EXCEPT !.loops[r].pc = "done"]
         ELSE race' = [race EXCEPT
                         !.loops[r] = [l EXCEPT !.pc = "items", !.obj = task_obj,
                                                !.expired = FALSE,
                                                !.pending = task_obj.pending_files,
                                                !.batch = batch, !.idx = 1,
                                                !.outcome = <<>>],
                         !.overlap = @ \/ \E q \in Loops \ {r} :
                                            /\ race.loops[q].pc \in {"items", "commit"}
                                            /\ Range(race.loops[q].batch) \cap Range(batch) # {}]

\* lines 184-206 of one loop, one pass: the file is moved and the record store
\* commits or rolls back in current_session, or the move raises
RaceFile(r) ==
  LET l == race.loops[r]
      file_path == l.batch[l.idx]
  IN  /\ race.pc = "run"
      /\ l.pc = "items"
      /\ \E moved \in BOOLEAN :
           /\ moved => file_path \in race.src
           /\ race' = [race EXCEPT
                         !.src = IF moved THEN @ \ {file_path} ELSE @,
                         !.loops[r] = [l EXCEPT
                                         !.expired = @ \/ moved,
                                         !.outcome = AppendOutcome(@, file_path, ~moved),
                                         !.idx = @ + 1,
                                         !.pc = AfterFile(l.idx, Len(l.batch), ~moved)]]

\* lines 208-224 of one loop with update_task_progress, the commit succeeding
RaceCommit(r) ==
  LET l == race.loops[r]
      loaded == Loaded(l, race.row)
      new == update_classification_task(loaded,
                                        CompletedCount(l.task.processed_files, l.outcome),
                                        AllCompleted(loaded.completed_files, l.outcome),
                                        RemainingPending(l.pending, l.outcome))
      row == Flush(race.row, loaded, new)
  IN  /\ race.pc = "run"
      /\ l.pc = "commit"
      /\ race' = [race EXCEPT !.row = row,
                              !.ever = @ \cup Range(row.completed_files),
                              !.loops[r] = [IdleLoop EXCEPT !.pc = "loop", !.task = l.task]]

RaceInit == Init /\ batch_size = 1 /\ placed = {}

RaceNext ==
  \/ RaceStart /\ UNCHANGED <<dest, ctrlVars, api, oracle, parser, reloc>>
  \/ \E r \in Loops : RaceEnter(r) /\ UNCHANGED <<dest, ctrlVars, api, oracle, parser, reloc>>
  \/ \E r \in Loops : RaceHead(r) /\ UNCHANGED <<dest, ctrlVars, api, oracle, parser, reloc>>
  \/ \E r \in Loops : RaceFile(r) /\ UNCHANGED <<dest, ctrlVars, api, oracle, parser, reloc>>
  \/ \E r \in Loops : RaceCommit(r) /\ UNCHANGED <<dest, ctrlVars, api, oracle, parser, reloc>>

RaceSpec == RaceInit /\ [][RaceNext]_vars

\* _parse_response called with any text
ParseText ==
  /\ parser.pc = "idle"
  /\ \E text \in Texts :
       parser' = [pc |-> "done", text |-> text, result |-> parse_response_text(text)]

ParserInit == Init /\ batch_size = 1 /\ placed = {}

ParserNext == ParseText /\ UNCHANGED <<dest, ctrlVars, api, oracle, reloc, race>>

ParserSpec == ParserInit /\ [][ParserNext]_vars
\* ---- the destination path taken alone (PathSpec) ----

MaxDepth == 3
\* components a label can be made of: two names and the parent reference
PathParts == {"Fiction", "etc", ".."}
\* the labels the oracle can return for a file: any text, so any relative or
\* absolute path of up to MaxDepth components; no component is the empty label
Labels ==
  {[abs |-> a, parts |-> p] :
     a \in BOOLEAN, p \in UNION {[1..n -> PathParts] : n \in 0..MaxDepth}}
\* the configured target_dir, an absolute directory
TargetDirs ==
  {[abs |-> TRUE, parts |-> <<"lib">>], [abs |-> TRUE, parts |-> <<"home", "lib">>]}

\* os.path.join(a, b): an absolute b replaces a; otherwise the components of b
\* follow those of a, and an empty b adds nothing
os_path_join(a, b) ==
  IF b.abs THEN b ELSE [abs |-> a.abs, parts |-> a.parts \o b.parts]

\* the directory the operating system reaches for the components of an absolute
\* path: ".." steps to the parent, and the parent of the root is the root
RECURSIVE Resolve(_)
Resolve(parts) ==
  IF parts = <<>> THEN <<>>
  ELSE LET front == Resolve(SubSeq(parts, 1, Len(parts) - 1))
           last == parts[Len(parts)]
       IN IF last = ".."
          THEN IF front = <<>> THEN <<>> ELSE SubSeq(front, 1, Len(front) - 1)
          ELSE Append(front, last)

\* FileManager.create_category_directory: the joined path, created with its
\* parents, returned as joined
create_category_directory(target_dir, category) == os_path_join(target_dir, category)

\* book_sort.py lines 187-192: the label of the mapping is passed on as it is
PathCall ==
  /\ dest.pc = "idle"
  /\ \E target_dir \in TargetDirs, file_path \in RelocPaths, category \in Labels :
       dest' = [dest EXCEPT !.pc = "called", !.target_dir = target_dir,
                            !.file_path = file_path, !.category = category]

\* move_file_to_category lines 38-53 for a move that returns: basename, category
\* directory, join, a counter when the name is taken there, shutil.move
PathMove ==
  /\ dest.pc = "called"
  /\ \E taken \in BOOLEAN :
       LET filename == get_filename_from_path(dest.file_path)
           category_dir == create_category_directory(dest.target_dir, dest.category)
           target_path == os_path_join(category_dir, [abs |-> FALSE, parts |-> <<filename>>])
       IN dest' = [dest EXCEPT !.pc = "moved", !.category_dir = category_dir,
                               !.target_path = target_path,
                               !.counter = IF taken THEN 1 ELSE 0]

PathInit == Init /\ batch_size = 1 /\ placed = {}

PathNext ==
  \/ PathCall /\ UNCHANGED <<ctrlVars, api, oracle, parser, reloc, race>>
  \/ PathMove /\ UNCHANGED <<ctrlVars, api, oracle, parser, reloc, race>>

PathSpec == PathInit /\ [][PathNext]_vars
(***************************************************************************)
(* Claims.                                                                 *)
(***************************************************************************)
Created == ledger # NoTask
InIteration == pc \in {"classify", "items", "commit"}

\* C1: after every successful ledger update (and at creation) the stored counter
\* is processed_files = total_files - |pending_files|.
C1_ProcessedMatchesPending ==
  Created => ledger.processed_files = ledger.total_files - Len(ledger.pending_files)

\* C2: in every committed ledger state pending_files and completed_files have no
\* path in common, also after iterations in which relocation or record
\* operations failed.
C2_PendingCompletedDisjoint ==
  Created => Range(ledger.pending_files) \cap Range(ledger.completed_files) = {}

\* a committed state with both lists non-empty, reached by a resumed run
C2_Witness ==
  /\ Created
  /\ ledger.pending_files # <<>>
  /\ ledger.completed_files # <<>>
  /\ history.runs = 2
  /\ history.commits = 1

\* C3: in every committed ledger state is_completed is true exactly when the
\* stored pending_files list is empty.
C3_CompletedIffNoPending ==
  Created => (ledger.is_completed <=> ledger.pending_files = <<>>)

\* the commit of the last batch of a task of several batches
C3_Witness ==
  /\ Created
  /\ ledger.is_completed
  /\ ledger.pending_files = <<>>
  /\ history.commits >= 2

\* C4: pending_files and completed_files together hold exactly the files given
\* at creation in every committed state, and a commit never puts a path into
\* pending_files that the previous committed state did not have there.
C4_UnionFixedNoReturn ==
  /\ [](Created => Range(ledger.pending_files) \cup Range(ledger.completed_files) = Range(files))
  /\ [][Created => Range(ledger'.pending_files) \subseteq Range(ledger.pending_files)]_vars

\* a second commit: paths have left pending in two successive commits
C4_Witness ==
  /\ Created
  /\ history.commits = 2
  /\ Len(ledger.completed_files) >= 2
  /\ ledger.pending_files # <<>>

\* C5: in a first run whose commits all succeed, with files f1..fn and batch size
\* B, the state after the k-th commit is pending = [f(kB+1)..fn],
\* completed = [f1..f(min(kB,n))], processed_files = min(kB,n) and
\* is_completed = (kB >= n).
C5_KthCommit ==
  (Created /\ history.runs = 1) =>
    LET n == Len(files)
        k == history.commits
        done == Min(k * batch_size, n)
    IN  /\ ledger.pending_files = SubSeq(files, done + 1, n)
        /\ ledger.completed_files = SubSeq(files, 1, done)
        /\ ledger.processed_files = done
        /\ ledger.is_completed = (k * batch_size >= n)

\* steps the loop can still take are bounded by Rank: the pending files of the
\* committed state first, the position inside the iteration second
Running == pc \in {"loop", "classify", "items", "commit"}
Rank ==
  Len(ledger.pending_files) * (batch_size + 4)
  + (CASE pc = "loop" -> batch_size + 3
       [] pc = "classify" -> batch_size + 2
       [] pc = "items" -> batch_size + 1 - idx
       [] OTHER -> 0)

\* C6: a run started on P >= 1 pending items with batch size B terminates: while
\* it runs a step of the loop is always possible and every step lowers Rank,
\* which is never negative; it never starts more than ceil(P/B) batches, and
\* when it finishes (no commit failed) it has made exactly ceil(P/B) oracle
\* calls and ceil(P/B) commits and pending_files is empty.
C6_BatchCount ==
  /\ [](Created =>
          /\ history.start >= 1
          /\ history.oracle <= CeilDiv(history.start, batch_size)
          /\ history.commits <= history.oracle
          /\ Rank >= 0
          /\ (Running => ENABLED LoopStep)
          /\ (pc = "done" =>
                /\ history.oracle = CeilDiv(history.start, batch_size)
                /\ history.commits = CeilDiv(history.start, batch_size)
                /\ ledger.pending_files = <<>>))
  /\ [][(Running /\ Running') => Rank' < Rank]_vars

\* a finished run of several batches whose last batch was not full
C6_Witness ==
  /\ pc = "done"
  /\ history.start = 3
  /\ batch_size = 2
  /\ history.oracle = 2
  /\ history.commits = 2

\* C7: every file of the batch that goes to the oracle, and every file the
\* relocator or the record store is called for, is in pending_files of the
\* committed state and not in its completed_files.
C7_OnlyPendingTouched ==
  InIteration =>
    /\ \A i \in 1..Len(batch_files) :
         /\ batch_files[i] \in Range(ledger.pending_files)
         /\ batch_files[i] \notin Range(ledger.completed_files)
    /\ \A i \in 1..Len(calls) :
         /\ calls[i].file \in Range(ledger.pending_files)
         /\ calls[i].file \notin Range(ledger.completed_files)

\* a resumed run on a task with pending and completed files has relocated a file
C7_Witness ==
  /\ pc = "commit"
  /\ history.runs = 2
  /\ ledger.completed_files # <<>>
  /\ ledger.pending_files # <<>>
  /\ calls # <<>>
  /\ calls[1].ok

\* C8: during the for loop the completed-outcome list is exactly the files of the
\* batch handled so far, each once, whatever raised; the loop goes on to the
\* next file after a failure, and the commit leaves no file of the batch in
\* pending_files.
C8_EveryFileOnce ==
  /\ [](pc \in {"items", "commit"} =>
          /\ idx \in 1..(Len(batch_files) + 1)
          /\ completed_files_list = SubSeq(batch_files, 1, idx - 1)
          /\ (pc = "commit" <=> idx = Len(batch_files) + 1))
  /\ [][(pc = "commit" /\ pc' = "loop") =>
          Range(batch_files) \cap Range(ledger'.pending_files) = {}]_vars

\* the first file of a batch of two failed to move and is in the outcome list,
\* the loop is at the second file
C8_Witness ==
  /\ pc = "items"
  /\ Len(batch_files) = 2
  /\ idx = 2
  /\ calls # <<>>
  /\ ~calls[1].ok
  /\ completed_files_list = <<batch_files[1]>>

\* C9: the category of every relocator and record store call for a file is the
\* value the oracle mapping has for the file's basename, and the fallback label
\* when the mapping has no such key; a moved file lies in that category and an
\* updated record carries it.
C9_CategoryOrFallback ==
  (pc \in {"items", "commit"} /\ calls # <<>>) =>
    LET file_path == batch_files[idx - 1]
        name == file_path[2]
        m == classification_results.map
        expected == IF \E k \in DOMAIN m : k = name THEN m[name] ELSE "uncat"
    IN  \A i \in 1..Len(calls) :
          /\ calls[i].file = file_path
          /\ calls[i].category = expected
          /\ (calls[i].op = "move" /\ calls[i].ok) =>
               \E k \in 0..MaxFiles : <<expected, name, k>> \in placed
          /\ (calls[i].op = "update_category" /\ calls[i].ok) => records[name] = expected

\* a batch of two: the mapping names only the first file, which lies in its
\* category; the second was moved to the fallback category
C9_Witness ==
  /\ pc = "commit"
  /\ Len(batch_files) = 2
  /\ classification_results.is_mapping
  /\ DOMAIN classification_results.map = {batch_files[1][2]}
  /\ <<"Fiction", batch_files[1][2], 0>> \in placed
  /\ Len(calls) = 3
  /\ calls[3].ok
  /\ <<"uncat", batch_files[2][2], 0>> \in placed
  /\ records[batch_files[2][2]] = "uncat"

\* C10: a failed commit ends the run (no step of the loop follows it), leaves the
\* stored task exactly as the last successful commit left it, hence not
\* completed and with pending files, and undoes no relocation.
C10_FailedCommitKeepsLedger ==
  /\ [][(pc = "commit" /\ pc' = "aborted") =>
          /\ ledger' = ledger
          /\ placed' = placed
          /\ srcFiles' = srcFiles
          /\ records' = records]_vars
  /\ [][pc = "aborted" => (pc' = "aborted" \/ history'.runs = history.runs + 1)]_vars
  /\ [](pc = "aborted" =>
          /\ ~ledger.is_completed
          /\ ledger.pending_files # <<>>
          /\ ~ENABLED LoopStep)

\* the commit of the second batch failed after the batch's file was moved: the
\* ledger is that of the first commit and the file is in the target tree
C10_Witness ==
  /\ pc = "aborted"
  /\ history.commits = 1
  /\ ledger.completed_files # <<>>
  /\ \E f \in Range(ledger.pending_files) :
       /\ f \notin srcFiles
       /\ \E c \in {"Fiction", "uncat"}, k \in 0..1 : <<c, f[2], k>> \in placed
\* the four fields of a task that update replaces
LedgerFields(row) ==
  <<row.processed_files, row.completed_files, row.pending_files, row.is_completed>>

\* C11: the ledger update is all-or-nothing: a step of the loop either leaves
\* the four persisted fields of the task as they were (always so when the
\* update fails, whichever statement of it raised) or replaces all four by the
\* values the iteration computed; no persisted state mixes old and new fields.
C11_UpdateAllOrNothing ==
  [][Created =>
       /\ (pc' = "aborted" /\ pc = "commit") => LedgerFields(ledger') = LedgerFields(ledger)
       /\ \/ LedgerFields(ledger') = LedgerFields(ledger)
          \/ /\ pc = "commit"
             /\ pc' = "loop"
             /\ ledger'.processed_files = progress_info.processed_files + Len(completed_files_list)
             /\ ledger'.completed_files = ledger.completed_files \o completed_files_list
             /\ Range(ledger'.pending_files) = Range(pending_files_list) \ Range(completed_files_list)
             /\ ledger'.is_completed = (ledger'.pending_files = <<>>)]_vars

\* the update of the first batch of two files failed: every field would have
\* changed, the row is still the created one
C11_Witness ==
  /\ pc = "aborted"
  /\ history.runs = 1
  /\ history.commits = 0
  /\ batch_size = 2
  /\ Len(files) = 2
  /\ srcFiles = {}
  /\ ledger = [exists |-> TRUE, total_files |-> 2, processed_files |-> 0,
               pending_files |-> files, completed_files |-> <<>>, is_completed |-> FALSE]

\* ---- the ledger taken alone (LedgerSpec): TaskManager called directly ----

\* C12: a create_task that returns has stored, under the id it was given, a task
\* whose pending_files is the list passed in the order passed, with no completed
\* file, processed_files 0, total_files the length of the list, and not completed.
C12_CreatePersistsInitialTask ==
  (api.call.op = "create" /\ api.outcome = "ok") =>
    LET row == TableRow(api.table, api.call.task_id)
    IN  /\ row # NoTask
        /\ row.pending_files = api.call.files
        /\ row.completed_files = <<>>
        /\ row.processed_files = 0
        /\ row.total_files = Len(api.call.files)
        /\ row.is_completed = FALSE

\* a task was created from two paths given in descending order
C12_Witness ==
  /\ api.call.op = "create"
  /\ api.outcome = "ok"
  /\ api.call.files = <<<<SrcDir, AllNames[2]>>, <<SrcDir, AllNames[1]>>>>

\* C13: create_task with an id the ledger already holds raises, the ledger holds
\* one task with that id as before, and no stored task has changed.
C13_DuplicateCreateFails ==
  [][(api'.n = api.n + 1 /\ api'.call.op = "create" /\ api'.call.existed) =>
       /\ api'.outcome \in ApiErrors
       /\ api'.table = api.table
       /\ Cardinality({r \in api'.table : r[1] = api'.call.task_id}) = 1]_vars

\* the INSERT of a second task with a stored id was refused, the arguments being
\* valid and the store working
C13_Witness ==
  /\ api.call.op = "create"
  /\ api.call.existed
  /\ api.call.files # <<>>
  /\ api.outcome = "IntegrityError"

\* C14: create_task with an empty list raises ValueError and leaves the store as
\* it was; every stored task has at least one file, and a stored task with no
\* pending file is completed.
C14_EmptyCreateRejected ==
  [][/\ (api'.n = api.n + 1 /\ api'.call.op = "create" /\ api'.call.files = <<>>) =>
          (api'.outcome = "ValueError" /\ api'.table = api.table)
     /\ \A r \in api'.table :
          /\ r[2].total_files >= 1
          /\ (r[2].pending_files = <<>>) => r[2].is_completed]_vars

\* an empty list was passed under an unused id while the ledger held a task
\* whose pending list an update had emptied
C14_Witness ==
  /\ api.call.op = "create"
  /\ api.call.files = <<>>
  /\ api.call.task_id \in TaskIds
  /\ ~api.call.existed
  /\ api.outcome = "ValueError"
  /\ \E r \in api.table : r[2].pending_files = <<>>

\* C15 as stated: update_task_progress with an id the ledger does not hold ends
\* in an exception.
C15_AbsentUpdateRaises ==
  (api.call.op = "update" /\ ~api.call.existed) => api.outcome \in ApiErrors

\* C15: update_task_progress with an id the ledger does not hold returns None
\* without raising, whether or not the store works, and changes no stored task.
C15_AbsentUpdateReturnsNone ==
  [][(api'.n = api.n + 1 /\ api'.call.op = "update" /\ ~api'.call.existed) =>
       (api'.outcome = "None" /\ api'.table = api.table)]_vars

\* an update named an absent id while the ledger held another task
C15_Witness ==
  /\ api.call.op = "update"
  /\ ~api.call.existed
  /\ api.outcome = "None"
  /\ api.table # {}

\* ---- the oracle client taken alone (OracleSpec) ----

\* the call has returned after at least one request
Returned == oracle.pc = "done" /\ oracle.log # <<>>

\* a 200 whose text, or whose content payload, json.loads cannot decode
MalformedJson(outcome) ==
  /\ outcome.kind = "response"
  /\ outcome.status = 200
  /\ \/ outcome.body.text = "bad_json"
     \/ outcome.body.text = "object" /\ outcome.body.choices = "ok"
        /\ outcome.body.content = "bad_json"

\* C16: whatever the outcomes of the attempts, classify_books returns a mapping,
\* and the empty one when no attempt gave a text that _parse_response turned
\* into a value.
C16_AlwaysReturnsMapping ==
  oracle.pc = "done" =>
    /\ oracle.result.is_mapping
    /\ (\A i \in 1..Len(oracle.log) : ~Parsed(oracle.log[i].outcome)) =>
         oracle.result = Mapping(EmptyMapping)

\* C17: a call sends at most max_retries requests whatever the outcomes; a call
\* that met only 429 responses goes on until it has sent max_retries requests and
\* then returns the empty mapping.
C17_AtMostThreeRequests ==
  /\ oracle.requests <= max_retries
  /\ oracle.requests = Len(oracle.log)
  /\ (oracle.log # <<>> /\ \A i \in 1..Len(oracle.log) : RateLimited(oracle.log[i].outcome)) =>
       IF Len(oracle.log) < max_retries
       THEN oracle.pc = "attempt"
       ELSE /\ oracle.pc = "done"
            /\ oracle.requests = max_retries
            /\ oracle.result = Mapping(EmptyMapping)

\* three 429 responses in a row ended the call
C17_Witness ==
  /\ Returned
  /\ Len(oracle.log) = max_retries
  /\ \A i \in 1..Len(oracle.log) : RateLimited(oracle.log[i].outcome)

\* C18: a 429 on the first attempt followed by a 200 with a valid mapping on the
\* second returns that mapping, the only sleep of the call being the one of
\* rate_limit_delay after the 429; after a 429, a later timeout, non-200 status
\* or other exception that is not on the last attempt still sleeps retry_delay
\* once, and a payload error retry_delay times its attempt number.
C18_RateLimitThenSuccess ==
  /\ (/\ Len(oracle.log) >= 2
      /\ RateLimited(oracle.log[1].outcome)
      /\ oracle.log[2].outcome.kind = "response"
      /\ oracle.log[2].outcome.status = 200
      /\ oracle.log[2].outcome.body.content = "mapping") =>
       /\ oracle.pc = "done"
       /\ Len(oracle.log) = 2
       /\ oracle.result = Mapping(oracle.log[2].outcome.body.map)
       /\ oracle.log[1].sleeps = <<rate_limit_delay>>
       /\ oracle.log[2].sleeps = <<>>
  /\ \A i \in 2..Len(oracle.log) :
       (/\ \E j \in 1..(i - 1) : RateLimited(oracle.log[j].outcome)
        /\ oracle.log[i].attempt < max_retries - 1) =>
         /\ (\/ oracle.log[i].outcome.kind \in {"timeout", "exception"}
             \/ oracle.log[i].outcome.status = 500) =>
              oracle.log[i].sleeps = <<retry_delay>>
         /\ oracle.log[i].outcome.kind = "payload_error" =>
              oracle.log[i].sleeps = <<retry_delay * (oracle.log[i].attempt + 1)>>

\* the call returned the mapping of its second response, the first being a 429
C18_Witness ==
  /\ Returned
  /\ Len(oracle.log) = 2
  /\ RateLimited(oracle.log[1].outcome)
  /\ oracle.log[2].outcome.body.content = "mapping"
  /\ oracle.result = Mapping(oracle.log[2].outcome.body.map)

\* C19: after a timeout on the first or second attempt the client sleeps
\* retry_delay once and sends another request; after a timeout on the third it
\* returns the empty mapping without sleeping.
C19_TimeoutRetry ==
  \A i \in 1..Len(oracle.log) :
    oracle.log[i].outcome.kind = "timeout" =>
      IF i < max_retries
      THEN /\ oracle.log[i].sleeps = <<retry_delay>>
           /\ (Len(oracle.log) > i \/ oracle.pc = "attempt")
      ELSE /\ oracle.log[i].sleeps = <<>>
           /\ Len(oracle.log) = i
           /\ oracle.pc = "done"
           /\ oracle.result = Mapping(EmptyMapping)

\* every attempt of the call timed out
C19_Witness ==
  /\ Returned
  /\ Len(oracle.log) = max_retries
  /\ \A i \in 1..Len(oracle.log) : oracle.log[i].outcome.kind = "timeout"

\* C20 as stated: a 200 with malformed JSON before the last attempt is followed
\* by another attempt.
C20_MalformedJsonRetried ==
  \A i \in 1..Len(oracle.log) :
    (MalformedJson(oracle.log[i].outcome) /\ i < max_retries) =>
      (Len(oracle.log) > i \/ oracle.pc = "attempt")

\* C20: a 200 with malformed JSON ends the call on the attempt that received it,
\* without a sleep and without another request; the call returns the flat JSON
\* object the salvage pattern finds in the text when there is one that decodes,
\* and the empty mapping otherwise.
C20_MalformedJsonEndsCall ==
  \A i \in 1..Len(oracle.log) :
    MalformedJson(oracle.log[i].outcome) =>
      /\ oracle.pc = "done"
      /\ Len(oracle.log) = i
      /\ oracle.log[i].sleeps = <<>>
      /\ oracle.result = Salvage(oracle.log[i].outcome.body)

\* the first response was a 200 with nothing to salvage: the call returned the
\* empty mapping after one request
C20_Witness ==
  /\ Returned
  /\ Len(oracle.log) = 1
  /\ MalformedJson(oracle.log[1].outcome)
  /\ oracle.log[1].outcome.body.salvage = "none"
  /\ oracle.requests = 1
  /\ oracle.result = Mapping(EmptyMapping)

\* ---- _parse_response on the text itself (ParserSpec) ----

\* the parse ended on a text that json.loads does not decode
SalvageCase == parser.pc = "done" /\ ~json_loads(parser.text).ok

\* positions of an opening brace that is followed by a closing brace with no
\* brace between the two
FlatStarts(text) ==
  {i \in 1..Len(text) :
     /\ text[i] = "{"
     /\ \E j \in (i + 1)..Len(text) :
          /\ text[j] = "}"
          /\ \A k \in (i + 1)..(j - 1) : text[k] \notin {"{", "}"}}
FlatFrom(text, i) ==
  SubSeq(text, i, CHOOSE j \in (i + 1)..Len(text) :
                    text[j] = "}" /\ \A k \in (i + 1)..(j - 1) : text[k] # "}")

\* positions of an opening brace that has its matching closing brace
Opens(text, i, j) == Cardinality({k \in i..j : text[k] = "{"})
Closes(text, i, j) == Cardinality({k \in i..j : text[k] = "}"})
BalancedStarts(text) ==
  {i \in 1..Len(text) :
     /\ text[i] = "{"
     /\ \E j \in (i + 1)..Len(text) : Opens(text, i, j) = Closes(text, i, j)}
BalancedFrom(text, i) ==
  LET ends == {j \in (i + 1)..Len(text) : Opens(text, i, j) = Closes(text, i, j)}
  IN  SubSeq(text, i, CHOOSE j \in ends : \A k \in ends : j <= k)
Leftmost(S) == CHOOSE i \in S : \A k \in S : i <= k

\* C21 as stated: when the text does not decode, the result is the decoded first
\* balanced {...} substring of the text, and the empty mapping when there is none
\* or it does not decode.
C21_SalvageFirstBalanced ==
  SalvageCase =>
    parser.result =
      IF BalancedStarts(parser.text) = {} THEN EmptyObject
      ELSE IF json_loads(BalancedFrom(parser.text, Leftmost(BalancedStarts(parser.text)))).ok
      THEN BalancedFrom(parser.text, Leftmost(BalancedStarts(parser.text)))
      ELSE EmptyObject

\* C21: when the text does not decode, the result is the decoded leftmost
\* substring that runs from an opening brace to the next closing brace with no
\* brace between them, and the empty mapping when there is none or it does not
\* decode; a text that embeds {"x.pdf":"Fiction"} between other characters gives
\* that mapping.
C21_SalvageFirstFlat ==
  SalvageCase =>
    /\ parser.result =
         IF FlatStarts(parser.text) = {} THEN EmptyObject
         ELSE IF json_loads(FlatFrom(parser.text, Leftmost(FlatStarts(parser.text)))).ok
         THEN FlatFrom(parser.text, Leftmost(FlatStarts(parser.text)))
         ELSE EmptyObject
    /\ parser.text \in {<<"x", "{", "kv", "}">>, <<"x", "{", "kv", "}", "x">>} =>
         parser.result = <<"{", "kv", "}">>

\* the mapping sits inside a pair of braces that does not decode: the balanced
\* substring is the whole text, the result is the inner mapping
C21_Witness ==
  /\ SalvageCase
  /\ parser.text = <<"{", "{", "kv", "}", "}">>
  /\ parser.result = <<"{", "kv", "}">>

\* ---- the relocator taken alone (RelocSpec) ----

\* C22: a move never removes or replaces a file of the target tree; the path it
\* returns was not in the tree when it was chosen, lies in the directory asked
\* for under the file's own name, carries the smallest counter whose path was
\* free (0 is the name itself, k is name_k.ext), and is the only path added.
C22_NeverOverwrites ==
  [][reloc'.n = reloc.n + 1 =>
       /\ reloc.tree \subseteq reloc'.tree
       /\ reloc'.outcome = "returned" =>
            /\ reloc'.target \notin reloc.tree
            /\ reloc'.target[1] = reloc'.call.category
            /\ reloc'.target[2] = get_filename_from_path(reloc'.call.file)
            /\ \A k \in 0..(reloc'.target[3] - 1) :
                 <<reloc'.target[1], reloc'.target[2], k>> \in reloc.tree
            /\ reloc'.tree = reloc.tree \cup {reloc'.target}]_vars

\* a third file named a was moved into a directory holding a and a_1: it is a_2
C22_Witness ==
  /\ reloc.outcome = "returned"
  /\ reloc.target = <<"Fiction", AllNames[1], 2>>
  /\ {<<"Fiction", AllNames[1], 0>>, <<"Fiction", AllNames[1], 1>>} \subseteq reloc.tree

\* C23: when the source is missing or shutil.move fails, move_file_to_category
\* raises, returns no path, and the source directory holds what it held.
C23_FailedMoveRaises ==
  [][(/\ reloc'.n = reloc.n + 1
      /\ \/ reloc'.call.file \notin reloc.src
         \/ reloc'.call.how # "ok") =>
       /\ reloc'.outcome = "raised"
       /\ reloc'.target = NoTarget
       /\ reloc'.src = reloc.src]_vars

\* shutil.move failed on a file that exists: it is still in the source directory
C23_Witness ==
  /\ reloc.outcome = "raised"
  /\ reloc.call.how = "fails"
  /\ reloc.call.file \in reloc.src

\* ---- the controller loop, second part (Spec) ----

\* C24: the batch of an iteration is the first min(B, |pending|) paths of the
\* committed pending list in stored order, and that list is always what is left
\* of the list given at creation, in its order; the source and the target tree
\* change only for the file at the for loop's position, which moves on by one;
\* the oracle is called for a batch only when every batch called before it in
\* the run has been committed.
C24_BatchesInOrder ==
  /\ [](Created =>
          /\ \E n \in 0..Len(files) : ledger.pending_files = SubSeq(files, n + 1, Len(files))
          /\ InIteration =>
               batch_files = SubSeq(ledger.pending_files, 1,
                                    Min(batch_size, Len(ledger.pending_files)))
          /\ history.oracle <= history.commits + 1
          /\ pc \in {"items", "commit"} => history.oracle = history.commits + 1)
  /\ [][Created =>
          /\ (srcFiles' # srcFiles \/ placed' # placed \/ records' # records) =>
               /\ pc = "items"
               /\ idx' = idx + 1
               /\ srcFiles \ srcFiles' \subseteq {batch_files[idx]}
               /\ \A t \in placed' \ placed : t[2] = get_filename_from_path(batch_files[idx])
          /\ history'.oracle = history.oracle + 1 =>
               (pc = "classify" /\ history.commits = history.oracle)]_vars

\* the second batch of a run is in its for loop, the first is committed
C24_Witness ==
  /\ pc = "items"
  /\ history.runs = 1
  /\ history.commits = 1
  /\ history.oracle = 2
  /\ batch_size = 2
  /\ Len(files) = 3
  /\ batch_files = <<files[3]>>

RecordWriteFailed ==
  /\ pc = "items"
  /\ calls' # <<>>
  /\ calls'[Len(calls')].op \in {"get_or_create", "update_category"}
  /\ ~calls'[Len(calls')].ok

\* C26 as stated: a record store call that raises in the for loop ends the run,
\* the ledger staying as committed.
C26_RecordFailureAborts ==
  [][RecordWriteFailed => (pc' = "aborted" /\ ledger' = ledger)]_vars

\* C26: a record store call that raises in the for loop does not end the run:
\* the file, already moved, joins the completed-outcome list, the loop goes on
\* to the next file or to the ledger update, and the ledger is not written by
\* that pass.
C26_RecordFailureSwallowed ==
  [][RecordWriteFailed =>
       /\ pc' = (IF idx = Len(batch_files) THEN "commit" ELSE "items")
       /\ ledger' = ledger
       /\ batch_files[idx] \notin srcFiles'
       /\ completed_files_list' = Append(completed_files_list, batch_files[idx])]_vars

\* a finished task lists as completed a file that was moved and has no record
C26_Witness ==
  /\ pc = "done"
  /\ ledger.is_completed
  /\ \E f \in Range(ledger.completed_files) :
       /\ f \notin srcFiles
       /\ records[get_filename_from_path(f)] = NoRecord

\* C28: at the top of the loop, when the task object passed in is completed or
\* the committed pending list is empty, the loop ends: no oracle call, no move,
\* no record write, no ledger update; and after the loop has ended none of these
\* happens.
C28_CompletedTaskStops ==
  [][/\ (/\ pc = "loop"
         /\ Created
         /\ (task.is_completed \/ ledger.pending_files = <<>>)) =>
          /\ pc' = "done"
          /\ UNCHANGED <<ledger, srcFiles, placed, records>>
          /\ history'.oracle = history.oracle
          /\ history'.commits = history.commits
     /\ pc = "done" =>
          /\ UNCHANGED <<ledger, srcFiles, placed, records>>
          /\ history'.oracle = history.oracle
          /\ history'.commits = history.commits]_vars

\* the loop was started again on the completed task and has ended
C28_Witness ==
  /\ pc = "done"
  /\ history.runs = 2
  /\ task.is_completed
  /\ ledger.is_completed
  /\ history.commits >= 1

\* C30: from one committed state of the task to the next, processed_files does
\* not decrease, and it is never above total_files.
C30_ProcessedMonotone ==
  [][(Created /\ ledger' # NoTask) =>
       /\ ledger'.processed_files >= ledger.processed_files
       /\ ledger'.processed_files <= ledger'.total_files]_vars

\* ---- the ledger taken alone, second part (LedgerSpec) ----

\* C29: every stored task has no path in both lists, holds only paths it was
\* created with, counts processed_files = total_files - |pending_files| and is
\* completed exactly when nothing is pending, whatever was passed to update.
C29_UpdateKeepsPartition ==
  \A r \in api.table :
    /\ Range(r[2].pending_files) \cap Range(r[2].completed_files) = {}
    /\ Len(r[2].pending_files) + Len(r[2].completed_files) = r[2].total_files
    /\ r[2].processed_files = r[2].total_files - Len(r[2].pending_files)
    /\ r[2].is_completed = (r[2].pending_files = <<>>)

\* ---- two loops on one task id (RaceSpec) ----

\* C27: neither the ledger nor the loop looks at what the other loop does: a
\* loop at the top of its iteration takes the first files of the committed
\* pending list also when the other loop holds them in its batch, and a commit
\* leaves in the row the pending list its own loop computed from its own read,
\* whatever the row held.
C27_NothingPreventsInterleaving ==
  [][\A r \in Loops :
       /\ (race.loops[r].pc = "loop" /\ race'.loops[r].pc = "items") =>
            race'.loops[r].batch =
              SubSeq(race.row.pending_files, 1, Min(race.size, Len(race.row.pending_files)))
       /\ (race.loops[r].pc = "commit" /\ race'.loops[r].pc = "loop") =>
            race'.row.pending_files =
              SelectSeq(race.loops[r].pending,
                        LAMBDA f : f \notin Range(race.loops[r].outcome))]_vars

\* both loops have held one file in their batches at the same time, and a file
\* that a commit had stored as completed is no longer in completed_files: the
\* later commit has put it back among the pending files
C27_Witness ==
  /\ race.overlap
  /\ \E f \in race.ever :
       /\ f \notin Range(race.row.completed_files)
       /\ f \in Range(race.row.pending_files)

\* ---- the controller loop, third part (Spec) ----

\* C31: in the calls of a pass of the for loop, every record store call comes
\* after a move of the same file that returned; a pass whose move raised makes
\* no record store call and leaves every book_info row as it was, and its file
\* still joins the completed-outcome list, which the commit stores as completed.
C31_RecordOnlyAfterMove ==
  /\ [](\A i \in 1..Len(calls) :
          calls[i].op \in {"get_or_create", "update_category"} =>
            /\ i >= 2
            /\ calls[1].op = "move"
            /\ calls[1].ok
            /\ calls[1].file = calls[i].file)
  /\ [][(/\ pc = "items"
         /\ calls' # <<>>
         /\ calls'[1].op = "move"
         /\ ~calls'[1].ok) =>
          /\ Len(calls') = 1
          /\ records' = records
          /\ completed_files_list' = Append(completed_files_list, batch_files[idx])]_vars
  /\ [][(pc = "commit" /\ pc' = "loop") =>
          Range(completed_files_list) \subseteq Range(ledger'.completed_files)]_vars

\* a finished task lists as completed a file whose move raised in the first
\* run: it is still in the source directory and has no record
C31_Witness ==
  /\ pc = "done"
  /\ history.runs = 1
  /\ ledger.is_completed
  /\ \E f \in Range(ledger.completed_files) :
       /\ f \in srcFiles
       /\ records[get_filename_from_path(f)] = NoRecord
  /\ \E f \in Range(ledger.completed_files) :
       records[get_filename_from_path(f)] \in OracleCats

\* ---- the destination path (PathSpec) ----

\* the directory a relocated file lands in, and its target root, as the
\* operating system resolves them
LandedDir == Resolve(dest.category_dir.parts)
TargetRoot == Resolve(dest.target_dir.parts)

\* C32: whatever label the oracle returned, a relocated file lands in a
\* directory below the target root: the components of the root followed by at
\* least one more.
C32_DestinationInsideTargetRoot ==
  dest.pc = "moved" =>
    /\ Len(LandedDir) > Len(TargetRoot)
    /\ SubSeq(LandedDir, 1, Len(TargetRoot)) = TargetRoot
====
